---- MODULE Spec2Model ----
(***************************************************************************)
(* txZMQ: the connection engine (txzmq/connection.py) of one request       *)
(* connection `s`, the request/reply adapters (txzmq/req_rep.py) and the   *)
(* transport and reactor they run against.                                 *)
(*                                                                         *)
(* Python's None is the empty tuple <<>> and a present reference is a      *)
(* one-element tuple, so that every optional field has one type.           *)
(* A frame is a string; the empty delimiter frame is "".                   *)
(***************************************************************************)
EXTENDS Integers, Sequences, FiniteSets, TLC

VARIABLES
    queue,              \* s.queue: the outbound deque of (flag, frame) pairs
    recv_parts,         \* s.recv_parts: frames of the message being received
    scheduled_doRead,   \* s.scheduled_doRead: None or the delayed call
    factory,            \* s.factory: None after shutdown
    socket,             \* s.socket: None after shutdown
    requests,           \* s._requests: correlation id -> pending handle
    uuids,              \* s._uuids: the pool of unused correlation ids
    uuidCount,          \* how many ids uuid4() has produced so far
    result,             \* the Deferreds sendMultipart returned: <<>> or <<value>>
    idOf,               \* history: the correlation id given to each handle
    resolvedBy,         \* history: the message whose receipt fired each handle
    readers,            \* the reactor's readers
    calls,              \* the reactor's delayed calls, neither fired nor cancelled
    connections,        \* factory.connections
    sockClosed,         \* the transport: s's socket has been closed
    wire,               \* the transport: frames s handed to socket.send
    inbox,              \* the transport: frames sent to s's socket and not yet read
    arrived,            \* history: the messages sent to s's socket, in order
    recvLog,            \* history: the messages s.doRead gave to messageReceived
    answered,           \* the peer: the wire messages it has replied to
    pc,                 \* where s.doRead stands: "idle", "recv" or "handler"
    passEnq,            \* history: frames were enqueued since doRead was entered
    sendLog,            \* history: the frame lists given to ZmqConnection.sendMultipart
    serial,             \* history: how many frames were ever enqueued
    faults,             \* how many transport faults the transport has raised
    injected,           \* how many unsolicited messages the peer has sent
    failed,             \* history: messageReceived calls that raised
    routingInfo,        \* r._routingInfo of the reply connection r
    r_queue,            \* r.queue
    r_scheduled,        \* r.scheduled_doRead
    r_log,              \* history: what r dispatched to gotMessage/gotMultipart
    r_stored,           \* history: how often r saved a routing prefix
    r_last,             \* history: r's last reply call and the state it was made in
    subscriptions,      \* the SUB socket of sub: how often each prefix is subscribed
    p_queue,            \* pub.queue of the publishing connection pub
    p_scheduled,        \* pub.scheduled_doRead
    sub_inbox,          \* the transport: messages the SUB socket of sub has let pass
    messages,           \* sub.messages: the [tag, message] pairs gotMessage was given
    messagesFrom,       \* history: the sender of each entry of sub.messages
    published,          \* history: the publish(message, tag) calls on pub
    sub_failed,         \* history: the messages sub.messageReceived raised on
    pubsubCalls,        \* how many subscribe, unsubscribe and foreign sends were made
    rt_queue,           \* router.queue of the ZmqRouterConnection router
    rt_scheduled,       \* router.scheduled_doRead
    rt_wire,            \* the transport: frames router handed to socket.send
    rt_sent,            \* history: the sendMultipart(recipientId, parts) calls on router
    dl_got,             \* history: the messages each dealer's messageReceived was given
    dl_sent,            \* history: the sendMultipart(parts) calls of the dealers
    rt_inbox,           \* the transport: messages the ROUTER socket has ready for recv
    rt_log,             \* history: the handler calls router.messageReceived made
    fd,                 \* the transport: s's descriptor is readable for the reactor
    writable,           \* the transport: s's socket has POLLOUT
    held,               \* ids a caller got from _getNextId and has not released
    poolCalls           \* how many calls that caller has made

vars == <<queue, recv_parts, scheduled_doRead, factory, socket, requests, uuids,
          uuidCount, result, idOf, resolvedBy, readers, calls, connections,
          sockClosed, wire, inbox, answered, pc, passEnq, sendLog, serial,
          faults, injected, failed, routingInfo, r_queue, r_scheduled, r_log,
          r_stored, r_last, arrived, recvLog, subscriptions, p_queue,
          p_scheduled, sub_inbox, messages, messagesFrom, published, sub_failed,
          pubsubCalls, rt_queue, rt_scheduled, rt_wire, rt_sent, dl_got,
          dl_sent, rt_inbox, rt_log, fd, writable, held, poolCalls>>

engineVars == <<queue, recv_parts, scheduled_doRead, factory, socket, readers,
                calls, connections, sockClosed, wire, inbox, answered, pc,
                passEnq, sendLog, serial, faults, injected, arrived, recvLog>>
requesterVars == <<requests, uuids, uuidCount, result, idOf, resolvedBy, failed>>
replierVars == <<routingInfo, r_queue, r_scheduled, r_log, r_stored, r_last>>
poolVars == <<held, poolCalls>>
recvVars == <<arrived, recvLog>>
routerVars == <<rt_queue, rt_scheduled, rt_wire, rt_sent, dl_got, dl_sent,
                rt_inbox, rt_log>>
edgeVars == <<fd, writable>>
pubsubVars == <<subscriptions, p_queue, p_scheduled, sub_inbox, messages,
                messagesFrom, published, sub_failed, pubsubCalls>>

----------------------------------------------------------------------------
(* Bounds of the model.                                                    *)

MaxRequests == 2        \* sends on s in Spec
MaxFaults == 1          \* transport faults raised by socket.send
MaxInjected == 1        \* unsolicited messages the peer puts on the wire
MaxBatches == 3         \* batches of ids uuid4() is asked for
MaxReplierMsgs == 2     \* messages delivered to the reply connection
MaxPoolCalls == 8       \* calls of _getNextId and _releaseId in SpecPool
MaxPublished == 3       \* publish calls on the publishing connection
MaxRouterSends == 2      \* sendMultipart calls on the router connection
MaxDealerSends == 2      \* sendMultipart calls of the dealers
MaxPubSubCalls == 3     \* subscribe, unsubscribe and foreign sends together

(* Program constants.                                                      *)

UUID_POOL_GEN_SIZE == 5
CleanupRequests == 10

None == <<>>
EmptyFrame == ""

(* The values uuid4() returns, in the order it returns them: all distinct. *)
UuidSpace == <<"u01", "u02", "u03", "u04", "u05", "u06", "u07", "u08", "u09",
               "u10", "u11", "u12", "u13", "u14", "u15", "u16", "u17", "u18",
               "u19", "u20", "u21", "u22", "u23", "u24", "u25", "u26", "u27",
               "u28", "u29", "u30">>
Uuid4(n) == UuidSpace[n]

(* The message parts callers send and the payloads the peer replies with.  *)
SentParts == {<<"a">>, <<"a", "b">>}
ReplyPayloads == {<<"p">>, <<"p", "q">>}

----------------------------------------------------------------------------
(* Helpers on sequences.                                                   *)

Range(s) == {s[i] : i \in 1..Len(s)}
Front(s) == SubSeq(s, 1, Len(s) - 1)
Last(s) == s[Len(s)]
Drop(s, n) == SubSeq(s, n + 1, Len(s))
Take(s, n) == SubSeq(s, 1, n)
NoDup(s) == \A i, j \in 1..Len(s) : i # j => s[i] # s[j]
MapPut(f, k, v) == [x \in (DOMAIN f) \cup {k} |-> IF x = k THEN v ELSE f[x]]
MapDel(f, k) == [x \in (DOMAIN f) \ {k} |-> f[x]]
EmptyMap == [x \in {} |-> <<>>]

----------------------------------------------------------------------------
(* ZmqRequestConnection: the pool of correlation ids.                      *)

(* _getNextId, lines 54-56: a batch of fresh ids, only for an empty pool.  *)
RefillOneShort(pool, n) ==
    IF pool = <<>>
    THEN [i \in 1..(UUID_POOL_GEN_SIZE - 1) |-> Uuid4(n + i)]
    ELSE pool

Refill(pool, n) ==
    IF pool = <<>>
    THEN [i \in 1..UUID_POOL_GEN_SIZE |-> Uuid4(n + i)]
    ELSE pool

(* _getNextId returning self._uuids[-1] and leaving it in the pool.         *)
GetNextIdNoPop(pool, n) ==
    LET p == Refill(pool, n)
    IN  [id |-> Last(p),
         pool |-> p,
         count |-> IF pool = <<>> THEN n + UUID_POOL_GEN_SIZE ELSE n]

(* _getNextId: the id returned, the pool left and the uuid4() count.       *)
GetNextId(pool, n) ==
    LET p == Refill(pool, n)
    IN  [id |-> Last(p),
         pool |-> Front(p),
         count |-> IF pool = <<>> THEN n + UUID_POOL_GEN_SIZE ELSE n]

(* _releaseId without the cut.                                             *)
ReleaseIdNoTrim(pool, msgId) == Append(pool, msgId)

(* _releaseId cutting as soon as the pool holds two batches.               *)
ReleaseIdEagerTrim(pool, msgId) ==
    LET p == Append(pool, msgId)
    IN  IF Len(p) >= 2 * UUID_POOL_GEN_SIZE
        THEN Take(p, Len(p) - UUID_POOL_GEN_SIZE)
        ELSE p

(* _releaseId: append, then cut the last batch off an oversized pool.      *)
ReleaseId(pool, msgId) ==
    LET p == Append(pool, msgId)
    IN  IF Len(p) > 2 * UUID_POOL_GEN_SIZE
        THEN Take(p, Len(p) - UUID_POOL_GEN_SIZE)
        ELSE p

----------------------------------------------------------------------------
(* ZmqConnection.sendMultipart: the queue and the scheduled flush.         *)

(* The (flag, frame) pairs of one message: SNDMORE on all but the last.    *)
(* msg and ser are history: the send the frame belongs to and its place in *)
(* the order of all enqueued frames.                                       *)
Frames(parts, m, ser) ==
    [i \in 1..Len(parts) |->
        [more |-> i < Len(parts), data |-> parts[i], msg |-> m, ser |-> ser + i]]

(* The frames put in front of the queue instead of behind it.              *)
EnqueueFront(q, frames) == frames \o q

(* queue.extend(...) and queue.append(...), lines 268-270.                 *)
Enqueue(q, frames) == q \o frames

(* reactor.callLater(0, self.doRead): a delayed call not yet in the reactor.*)
NewCall(conn) ==
    [of |-> conn,
     n |-> CHOOSE k \in 1..(Cardinality(calls) + 1) :
             [of |-> conn, n |-> k] \notin calls]

(* sendMultipart scheduling no flush.                                      *)
ScheduleFlushNever(sched, conn) == [marker |-> sched, calls |-> calls]

(* Lines 272-273: the marker and the reactor's calls after a send.         *)
ScheduleFlush(sched, conn) ==
    IF sched = None
    THEN [marker |-> <<NewCall(conn)>>, calls |-> calls \cup {NewCall(conn)}]
    ELSE [marker |-> sched, calls |-> calls]

(* ZmqConnection.sendMultipart on s, for a non-empty list of parts.        *)
BaseSendMultipart(parts) ==
    /\ queue' = Enqueue(queue, Frames(parts, Len(sendLog) + 1, serial))
    /\ sendLog' = Append(sendLog, parts)
    /\ serial' = serial + Len(parts)
    /\ scheduled_doRead' = ScheduleFlush(scheduled_doRead, "s").marker
    /\ calls' = ScheduleFlush(scheduled_doRead, "s").calls
    /\ passEnq' = (passEnq \/ pc # "idle")

----------------------------------------------------------------------------
(* ZmqRequestConnection.sendMultipart, called by the application or by a   *)
(* callback of a Deferred that a received reply has fired.                 *)

(* The request without its delimiter frame.                                *)
RequestFramesNoDelimiter(messageId, messageParts) == <<messageId>> \o messageParts

(* [messageId, ''] + messageParts, line 80.                                *)
RequestFrames(messageId, messageParts) == <<messageId, EmptyFrame>> \o messageParts

ReqSendMultipart(messageParts, limit) ==
    /\ pc \in {"idle", "handler"}
    /\ Len(idOf) < limit
    /\ uuids = <<>> => uuidCount + UUID_POOL_GEN_SIZE <= MaxBatches * UUID_POOL_GEN_SIZE
    /\ LET got == GetNextId(uuids, uuidCount)
           d == Len(idOf) + 1
       IN  /\ uuids' = got.pool
           /\ uuidCount' = got.count
           /\ requests' = MapPut(requests, got.id, d)
           /\ result' = Append(result, None)
           /\ idOf' = Append(idOf, got.id)
           /\ resolvedBy' = Append(resolvedBy, None)
           /\ BaseSendMultipart(RequestFrames(got.id, messageParts))
    /\ UNCHANGED <<recv_parts, factory, socket, readers, connections, sockClosed,
                   wire, inbox, answered, pc, faults, injected, failed>>
    /\ UNCHANGED replierVars
    /\ UNCHANGED pubsubVars
    /\ UNCHANGED routerVars
    /\ UNCHANGED edgeVars
    /\ UNCHANGED poolVars
    /\ UNCHANGED recvVars

----------------------------------------------------------------------------
(* ZmqRequestConnection.messageReceived.                                   *)

(* message[1:] in place of message[2:].                                    *)
ReplyPartsFromDelimiter(message) == Drop(message, 1)

(* message[2:], line 91.                                                   *)
ReplyParts(message) == Drop(message, 2)

(* The call raises: IndexError for a message of one frame (message[1]),    *)
(* KeyError when the first frame is no key of _requests (line 92).         *)
ReqRaises(message) == Len(message) < 2 \/ message[1] \notin DOMAIN requests

(* Lines 91-94 when nothing raises: pop the handle, release the id, fire.  *)
ReqResolve(message, tag) ==
    LET msgId == message[1]
        d == requests[msgId]
    IN  /\ requests' = MapDel(requests, msgId)
        /\ uuids' = ReleaseId(uuids, msgId)
        /\ result' = [result EXCEPT ![d] = <<ReplyParts(message)>>]
        /\ resolvedBy' = [resolvedBy EXCEPT ![d] = <<tag>>]
        /\ UNCHANGED <<uuidCount, idOf, failed>>

(* messageReceived with the id released before the handle is popped.       *)
ReqMessageReceivedReleaseFirst(message, tag) ==
    IF ReqRaises(message)
    THEN /\ failed' = failed \cup {message}
         /\ pc' = "recv"
         /\ uuids' = IF Len(message) >= 2 THEN ReleaseId(uuids, message[1]) ELSE uuids
         /\ UNCHANGED <<requests, uuidCount, result, idOf, resolvedBy>>
    ELSE /\ ReqResolve(message, tag)
         /\ pc' = "handler"

(* log.callWithLogger(self, self.messageReceived, message), line 224: an   *)
(* exception is logged and the receive loop goes on; a fired Deferred runs *)
(* its callbacks before messageReceived returns.                           *)
ReqMessageReceived(message, tag) ==
    IF ReqRaises(message)
    THEN /\ failed' = failed \cup {message}
         /\ pc' = "recv"
         /\ UNCHANGED <<requests, uuids, uuidCount, result, idOf, resolvedBy>>
    ELSE /\ ReqResolve(message, tag)
         /\ pc' = "handler"

----------------------------------------------------------------------------
(* ZmqConnection.doRead.                                                   *)

(* The marker dropped without cancelling its call.                         *)
CallsKept(cs, sched) == cs

(* Lines 194-197: the reactor's calls once the marker's call is cancelled. *)
CallsAfterEntry(cs, sched) == IF sched # None THEN cs \ {sched[1]} ELSE cs

(* The marker left in place as doRead is entered.                          *)
MarkerKept(sched) == sched

(* Line 197: the marker after the entry of doRead.                         *)
MarkerAfterEntry(sched) == None

(* Lines 200-211. The loop sends k frames and then ends: "skipped" without *)
(* POLLOUT, "drained" with the queue empty, "eagain" when the next send    *)
(* would block, "fault" when it raises another ZMQError.                   *)
SendEnds == {"skipped", "drained", "eagain", "fault"}
SendLoopCan(q, k, end) ==
    /\ k \in 0..Len(q)
    /\ end = "skipped" => k = 0
    /\ end = "drained" <=> (k = Len(q) /\ end # "skipped")
    /\ end = "fault" => faults < MaxFaults

(* The frame whose send would block taken off the queue as well.           *)
QueueAfterDropsBlocked(q, k, end) ==
    Drop(q, IF end \in {"fault", "eagain"} THEN k + 1 ELSE k)

(* The frame whose send failed left at the head of the queue.              *)
QueueAfterKeepsFailed(q, k, end) == Drop(q, k)

(* What socket.send was given, and the queue the loop leaves.              *)
SentBy(q, k) == Take(q, k)
QueueAfter(q, k, end) == Drop(q, IF end = "fault" THEN k + 1 ELSE k)

(* connectionLost, lines 169-170: the reactor calls it when doRead raises. *)
ConnectionLost(rs) == IF factory # None THEN rs \ {"s"} ELSE rs

(* doRead from its entry to the end of the send loop; cs are the reactor's *)
(* calls as doRead is entered, byReactor tells a readiness notification    *)
(* from a fired delayed call, ends are the ways the transport lets the     *)
(* send loop end.                                                          *)
DoReadEnter(cs, byReactor, ends) ==
    /\ pc = "idle"
    /\ scheduled_doRead' = MarkerAfterEntry(scheduled_doRead)
    /\ calls' = CallsAfterEntry(cs, scheduled_doRead)
    /\ passEnq' = FALSE
    /\ IF socket = None
       THEN \* line 199 raises AttributeError
            /\ pc' = "idle"
            /\ readers' = IF byReactor THEN ConnectionLost(readers) ELSE readers
            /\ UNCHANGED <<queue, wire, faults>>
       ELSE \E end \in ends, k \in 0..Len(queue) :
            /\ SendLoopCan(queue, k, end)
            /\ wire' = wire \o SentBy(queue, k)
            /\ queue' = QueueAfter(queue, k, end)
            /\ IF end = "fault"
               THEN /\ faults' = faults + 1
                    /\ pc' = "idle"
                    /\ readers' = IF byReactor THEN ConnectionLost(readers)
                                               ELSE readers
               ELSE /\ pc' = IF inbox # <<>> THEN "recv" ELSE "idle"
                    /\ UNCHANGED <<faults, readers>>
    /\ UNCHANGED <<recv_parts, factory, socket, connections, sockClosed, inbox,
                   answered, sendLog, serial, injected>>
    /\ UNCHANGED requesterVars
    /\ UNCHANGED replierVars
    /\ UNCHANGED pubsubVars
    /\ UNCHANGED routerVars
    /\ UNCHANGED edgeVars
    /\ UNCHANGED poolVars
    /\ UNCHANGED recvVars

(* The reactor finds s's descriptor readable and calls doRead.             *)
ReactorDoRead(ends) ==
    /\ "s" \in readers
    /\ DoReadEnter(calls, TRUE, ends)

(* The reactor fires a delayed call of s.doRead.                           *)
FlushFires(ends) ==
    \E c \in calls :
        /\ c.of = "s"
        /\ DoReadEnter(calls \ {c}, FALSE, ends)

(* _readMultipart: the index of the frame that completes a message, or 0   *)
(* when recv raises EAGAIN first.                                          *)
FinalIndex(box) ==
    IF \E i \in 1..Len(box) : ~box[i].more
    THEN CHOOSE i \in 1..Len(box) : ~box[i].more /\ \A j \in 1..(i - 1) : box[j].more
    ELSE 0

Data(frames) == [i \in 1..Len(frames) |-> frames[i].data]

(* The test of line 214 never finding the connection shut down.            *)
DisconnectedNever == FALSE

(* Line 214: shutdown has cleared the factory.                             *)
Disconnected == factory = None

(* The accumulator left as it is when a message is complete.               *)
AccumulatorKept(message) == message

(* Line 180: recv_parts once _readMultipart has a complete message.        *)
AccumulatorAfter(message) == <<>>

(* One turn of the receive loop, lines 213-224, with all the frames sent   *)
(* to the socket ready to be read.                                         *)
RecvStep ==
    /\ pc = "recv"
    /\ IF Disconnected
       THEN \* disconnected: return
            /\ pc' = "idle"
            /\ UNCHANGED <<recv_parts, inbox, recvLog>>
            /\ UNCHANGED requesterVars
       ELSE LET i == FinalIndex(inbox)
            IN  IF i = 0
                THEN \* EAGAIN: the frames read so far stay in recv_parts
                     /\ recv_parts' = recv_parts \o Data(inbox)
                     /\ inbox' = <<>>
                     /\ pc' = "idle"
                     /\ UNCHANGED recvLog
                     /\ UNCHANGED requesterVars
                ELSE /\ recv_parts' = AccumulatorAfter(recv_parts \o Data(Take(inbox, i)))
                     /\ inbox' = Drop(inbox, i)
                     /\ recvLog' = Append(recvLog, recv_parts \o Data(Take(inbox, i)))
                     /\ ReqMessageReceived(recv_parts \o Data(Take(inbox, i)),
                                           inbox[i].tag)
    /\ UNCHANGED <<queue, scheduled_doRead, factory, socket, readers, calls,
                   connections, sockClosed, wire, answered, passEnq, sendLog,
                   serial, faults, injected, arrived>>
    /\ UNCHANGED replierVars
    /\ UNCHANGED pubsubVars
    /\ UNCHANGED routerVars
    /\ UNCHANGED edgeVars
    /\ UNCHANGED poolVars

(* A turn of the receive loop in which only the first j frames of the next *)
(* message are ready: _readMultipart appends them to recv_parts and the    *)
(* next recv raises EAGAIN, lines 178 and 218-220.                         *)
RecvWouldBlock ==
    /\ pc = "recv"
    /\ ~Disconnected
    /\ \E j \in 0..Len(inbox) :
          /\ j < FinalIndex(inbox)
          /\ recv_parts' = recv_parts \o Data(Take(inbox, j))
          /\ inbox' = Drop(inbox, j)
    /\ pc' = "idle"
    /\ UNCHANGED <<queue, scheduled_doRead, factory, socket, readers, calls,
                   connections, sockClosed, wire, answered, passEnq, sendLog,
                   serial, faults, injected, arrived, recvLog>>
    /\ UNCHANGED requesterVars
    /\ UNCHANGED replierVars
    /\ UNCHANGED pubsubVars
    /\ UNCHANGED routerVars
    /\ UNCHANGED edgeVars
    /\ UNCHANGED poolVars

(* The callbacks of the fired Deferred return to messageReceived.          *)
HandlerReturns ==
    /\ pc = "handler"
    /\ pc' = "recv"
    /\ UNCHANGED <<queue, recv_parts, scheduled_doRead, factory, socket, readers,
                   calls, connections, sockClosed, wire, inbox, answered, passEnq,
                   sendLog, serial, faults, injected>>
    /\ UNCHANGED requesterVars
    /\ UNCHANGED replierVars
    /\ UNCHANGED pubsubVars
    /\ UNCHANGED routerVars
    /\ UNCHANGED edgeVars
    /\ UNCHANGED poolVars
    /\ UNCHANGED recvVars

(* shutdown leaving the scheduled flush with the reactor.                  *)
CallsAfterShutdownKept(cs, sched) == cs

(* Lines 136-138: shutdown cancels the scheduled flush.                    *)
CallsAfterShutdown(cs, sched) == IF sched # None THEN cs \ {sched[1]} ELSE cs

(* shutdown forgetting the pending requests.                               *)
ShutdownDropsPending ==
    /\ pc \in {"idle", "handler"}
    /\ factory # None
    /\ readers' = readers \ {"s"}
    /\ connections' = connections \ {"s"}
    /\ sockClosed' = TRUE
    /\ socket' = None
    /\ factory' = None
    /\ calls' = CallsAfterShutdown(calls, scheduled_doRead)
    /\ scheduled_doRead' = None
    /\ UNCHANGED <<queue, recv_parts, wire, inbox, answered, pc, passEnq, sendLog,
                   serial, faults, injected>>
    /\ requests' = EmptyMap
    /\ UNCHANGED <<uuids, uuidCount, result, idOf, resolvedBy, failed>>
    /\ UNCHANGED replierVars
    /\ UNCHANGED pubsubVars
    /\ UNCHANGED routerVars
    /\ UNCHANGED edgeVars
    /\ UNCHANGED poolVars
    /\ UNCHANGED recvVars

(* ZmqConnection.shutdown, called by the application or by a callback. On  *)
(* a connection already shut down line 127 raises and nothing changes.     *)
Shutdown ==
    /\ pc \in {"idle", "handler"}
    /\ factory # None
    /\ readers' = readers \ {"s"}
    /\ connections' = connections \ {"s"}
    /\ sockClosed' = TRUE
    /\ socket' = None
    /\ factory' = None
    /\ calls' = CallsAfterShutdown(calls, scheduled_doRead)
    /\ scheduled_doRead' = None
    /\ UNCHANGED <<queue, recv_parts, wire, inbox, answered, pc, passEnq, sendLog,
                   serial, faults, injected>>
    /\ UNCHANGED requesterVars
    /\ UNCHANGED replierVars
    /\ UNCHANGED pubsubVars
    /\ UNCHANGED routerVars
    /\ UNCHANGED edgeVars
    /\ UNCHANGED poolVars
    /\ UNCHANGED recvVars

----------------------------------------------------------------------------
(* The transport and the peer of s.                                        *)

(* The multipart messages a receiver assembles from a run of frames: a     *)
(* message ends at the first frame sent without SNDMORE.                   *)
RECURSIVE Assemble(_)
Assemble(fs) ==
    IF FinalIndex(fs) = 0
    THEN <<>>
    ELSE <<Take(fs, FinalIndex(fs))>> \o Assemble(Drop(fs, FinalIndex(fs)))

(* A request as the replier dispatches it: an id, the delimiter, payload.  *)
WellFormed(m) == Len(m) >= 3 /\ m[2] = EmptyFrame

(* The frames of a message as the transport delivers them to s; tag is     *)
(* history: the reply(id, payload) call that produced the message and the  *)
(* send it answers (0 for a message that answers none).                    *)
Delivery(m, tag) ==
    [i \in 1..Len(m) |-> [more |-> i < Len(m), data |-> m[i], tag |-> tag]]

(* The replier answers, once, the k-th request it has received, with       *)
(* reply(id, P).                                                           *)
PeerReplies(k, P) ==
    LET m == Assemble(wire)[k]
    IN  /\ ~sockClosed
        /\ k \notin answered
        /\ WellFormed(Data(m))
        /\ answered' = answered \cup {k}
        /\ inbox' = inbox \o Delivery(<<m[1].data, EmptyFrame>> \o P,
                                      [req |-> m[1].msg, id |-> m[1].data,
                                       payload |-> P])
        /\ arrived' = Append(arrived, <<m[1].data, EmptyFrame>> \o P)
        /\ UNCHANGED recvLog
        /\ UNCHANGED <<queue, recv_parts, scheduled_doRead, factory, socket,
                       readers, calls, connections, sockClosed, wire, pc,
                       passEnq, sendLog, serial, faults, injected>>
        /\ UNCHANGED requesterVars
        /\ UNCHANGED replierVars
        /\ UNCHANGED pubsubVars
        /\ UNCHANGED routerVars
        /\ UNCHANGED edgeVars
        /\ UNCHANGED poolVars

(* A replier that answers the requests in any order, with any payload.     *)
PeerReply ==
    \E k \in 1..Len(Assemble(wire)), P \in ReplyPayloads : PeerReplies(k, P)

(* Messages no request asked for: a reply repeated or sent for an id of    *)
(* its own, a message without the delimiter, a message of one frame.       *)
Unsolicited ==
    LET ids == Range(idOf) \cup {"zz"}
    IN  {<<i, EmptyFrame, "p">> : i \in ids}
            \cup {<<i, "x", "p">> : i \in ids}
            \cup {<<i>> : i \in ids}

PeerUnsolicited ==
    \E m \in Unsolicited :
        /\ ~sockClosed
        /\ injected < MaxInjected
        /\ injected' = injected + 1
        /\ inbox' = inbox \o Delivery(m, [req |-> 0, id |-> m[1],
                                          payload |-> Drop(m, 2)])
        /\ arrived' = Append(arrived, m)
        /\ UNCHANGED recvLog
        /\ UNCHANGED <<queue, recv_parts, scheduled_doRead, factory, socket,
                       readers, calls, connections, sockClosed, wire, answered,
                       pc, passEnq, sendLog, serial, faults>>
        /\ UNCHANGED requesterVars
        /\ UNCHANGED replierVars
        /\ UNCHANGED pubsubVars
        /\ UNCHANGED routerVars
        /\ UNCHANGED edgeVars
        /\ UNCHANGED poolVars

----------------------------------------------------------------------------
(* txzmq/pubsub.py: a ZmqPubConnection pub and a subscriber sub, a         *)
(* ZmqSubConnection whose gotMessage appends [tag, message] to             *)
(* sub.messages. A string is the sequence of its bytes; NUL is the byte 0. *)

NUL == "NUL"

TagPrefix == <<"t", "a", "g">>
Tag1 == <<"t", "a", "g", "1">>
Tag2 == <<"t", "a", "g", "2">>
DifferentTag == <<"d", "i", "f", "f", "e", "r", "e", "n", "t", "-", "t", "a", "g">>
TagWithNul == <<"t", "a", "g", NUL, "9">>
NoTag == <<>>
Xyz == <<"x", "y", "z">>
Abcd == <<"a", "b", "c", "d">>
Efgh == <<"e", "f", "g", "h">>
WithNul == <<"a", NUL, "b">>

(* The publish(message, tag) calls made: those of test_send_recv, a        *)
(* message with a 0 byte, the default tag, a tag with a 0 byte.            *)
Publications ==
    {[message |-> Xyz, tag |-> DifferentTag], [message |-> Abcd, tag |-> Tag1],
     [message |-> Efgh, tag |-> Tag2], [message |-> WithNul, tag |-> Tag1],
     [message |-> Xyz, tag |-> NoTag], [message |-> Xyz, tag |-> TagWithNul]}

(* The prefixes subscribed to: "tag" as in test_send_recv, everything, a   *)
(* whole tag, a prefix that reaches over the 0 byte into the message.      *)
Prefixes == {TagPrefix, <<>>, Tag1, Tag1 \o <<NUL, "a">>}

(* Messages of other publishers: the tag as a frame of its own, three      *)
(* frames, one frame without a 0 byte.                                     *)
ForeignMessages == {<<Tag1, Abcd>>, <<Tag1, <<"a">>, <<"b">>>>, <<Tag2>>}

IsPrefix(pre, str) == Len(pre) <= Len(str) /\ Take(str, Len(pre)) = pre

(* The SUB socket lets a message pass when its first frame starts with a   *)
(* subscribed prefix.                                                      *)
Passes(frame) ==
    \E prefix \in Prefixes : subscriptions[prefix] > 0 /\ IsPrefix(prefix, frame)

(* subscribe, line 53: setsockopt(SUBSCRIBE, tag).                         *)
Subscribe(tag) ==
    /\ published = <<>>
    /\ pubsubCalls < MaxPubSubCalls
    /\ pubsubCalls' = pubsubCalls + 1
    /\ subscriptions' = [subscriptions EXCEPT ![tag] = @ + 1]
    /\ UNCHANGED <<p_queue, p_scheduled, sub_inbox, messages, messagesFrom,
                   published, sub_failed>>
    /\ UNCHANGED engineVars
    /\ UNCHANGED requesterVars
    /\ UNCHANGED replierVars
    /\ UNCHANGED poolVars
    /\ UNCHANGED routerVars
    /\ UNCHANGED edgeVars

(* unsubscribe, line 62: setsockopt(UNSUBSCRIBE, tag) takes one            *)
(* subscription of the prefix away, if there is one.                       *)
Unsubscribe(tag) ==
    /\ published = <<>>
    /\ pubsubCalls < MaxPubSubCalls
    /\ pubsubCalls' = pubsubCalls + 1
    /\ subscriptions' = [subscriptions EXCEPT
                            ![tag] = IF @ > 0 THEN @ - 1 ELSE @]
    /\ UNCHANGED <<p_queue, p_scheduled, sub_inbox, messages, messagesFrom,
                   published, sub_failed>>
    /\ UNCHANGED engineVars
    /\ UNCHANGED requesterVars
    /\ UNCHANGED replierVars
    /\ UNCHANGED poolVars
    /\ UNCHANGED routerVars
    /\ UNCHANGED edgeVars

(* The frame with the message in front of the tag.                         *)
PubFrameMessageFirst(message, tag) == message \o <<NUL>> \o tag

(* tag + '\0' + message, line 24.                                          *)
PubFrame(message, tag) == tag \o <<NUL>> \o message

(* ZmqPubConnection.publish and sendMsg: self.send([tag + '\0' + message]) *)
(* enqueues the one frame and schedules a flush of pub.                    *)
PubSendMsg(message, tag) ==
    /\ Len(published) < MaxPublished
    /\ published' = Append(published, [message |-> message, tag |-> tag])
    /\ p_queue' = Enqueue(p_queue, Frames(<<PubFrame(message, tag)>>,
                                          Len(published) + 1, Len(published)))
    /\ p_scheduled' = ScheduleFlush(p_scheduled, "pub").marker
    /\ calls' = ScheduleFlush(p_scheduled, "pub").calls
    /\ UNCHANGED <<subscriptions, sub_inbox, messages, messagesFrom, sub_failed,
                   pubsubCalls>>
    /\ UNCHANGED <<queue, recv_parts, scheduled_doRead, factory, socket, readers,
                   connections, sockClosed, wire, inbox, answered, pc, passEnq,
                   sendLog, serial, faults, injected, arrived, recvLog>>
    /\ UNCHANGED requesterVars
    /\ UNCHANGED replierVars
    /\ UNCHANGED poolVars
    /\ UNCHANGED routerVars
    /\ UNCHANGED edgeVars

(* What the SUB socket lets pass of the frames pub has sent; every frame   *)
(* of pub is a message of its own.                                         *)
RECURSIVE Filtered(_)
Filtered(frames) ==
    IF frames = <<>>
    THEN <<>>
    ELSE (IF Passes(Head(frames).data)
          THEN <<[frames |-> <<Head(frames).data>>, from |-> "pub"]>>
          ELSE <<>>) \o Filtered(Tail(frames))

(* doRead of pub, lines 194-211: the marker is cleared, its call cancelled *)
(* and the first k frames of the queue are sent, all of them or up to one  *)
(* whose send would block.                                                 *)
PubDoRead ==
    /\ p_queue # <<>>
    /\ p_scheduled' = MarkerAfterEntry(p_scheduled)
    /\ calls' = {c \in calls : c.of # "pub"}
    /\ \E k \in 0..Len(p_queue) :
          /\ p_queue' = Drop(p_queue, k)
          /\ sub_inbox' = sub_inbox \o Filtered(Take(p_queue, k))
    /\ UNCHANGED <<subscriptions, messages, messagesFrom, published, sub_failed,
                   pubsubCalls>>
    /\ UNCHANGED <<queue, recv_parts, scheduled_doRead, factory, socket, readers,
                   connections, sockClosed, wire, inbox, answered, pc, passEnq,
                   sendLog, serial, faults, injected, arrived, recvLog>>
    /\ UNCHANGED requesterVars
    /\ UNCHANGED replierVars
    /\ UNCHANGED poolVars
    /\ UNCHANGED routerVars
    /\ UNCHANGED edgeVars

(* Another publisher sends sub a message.                                  *)
ForeignSend ==
    \E message \in ForeignMessages :
        /\ pubsubCalls < MaxPubSubCalls
        /\ pubsubCalls' = pubsubCalls + 1
        /\ sub_inbox' = IF Passes(message[1])
                        THEN Append(sub_inbox, [frames |-> message, from |-> "other"])
                        ELSE sub_inbox
        /\ UNCHANGED <<subscriptions, p_queue, p_scheduled, messages, messagesFrom,
                       published, sub_failed>>
        /\ UNCHANGED engineVars
        /\ UNCHANGED requesterVars
        /\ UNCHANGED replierVars
        /\ UNCHANGED poolVars
        /\ UNCHANGED routerVars
        /\ UNCHANGED edgeVars

NulAt(frame) ==
    IF \E i \in 1..Len(frame) : frame[i] = NUL
    THEN CHOOSE i \in 1..Len(frame) :
            frame[i] = NUL /\ \A j \in 1..(i - 1) : frame[j] # NUL
    ELSE 0

LastNulAt(frame) ==
    IF \E i \in 1..Len(frame) : frame[i] = NUL
    THEN CHOOSE i \in 1..Len(frame) :
            frame[i] = NUL /\ \A j \in (i + 1)..Len(frame) : frame[j] # NUL
    ELSE 0

(* The frame split at its last 0 byte.                                     *)
SplitAtLastNul(frame) ==
    <<Take(frame, LastNulAt(frame) - 1), Drop(frame, LastNulAt(frame))>>

(* message[0].split('\0', 1), line 80, of a frame with a 0 byte.           *)
SplitFrame(frame) == <<Take(frame, NulAt(frame) - 1), Drop(frame, NulAt(frame))>>

(* ZmqSubConnection.messageReceived raises: the assert of line 79 for      *)
(* other than one or two frames, the unpacking of line 80 for one frame    *)
(* without a 0 byte.                                                       *)
SubRaises(message) ==
    /\ Len(message) # 2
    /\ Len(message) # 1 \/ NulAt(message[1]) = 0

(* The [tag, message] gotMessage is called with, lines 73-81.              *)
SubGotMessage(message) ==
    IF Len(message) = 2 THEN <<message[1], message[2]>> ELSE SplitFrame(message[1])

(* One turn of the receive loop of sub.doRead: messageReceived for the     *)
(* next message; callWithLogger logs what it raises.                       *)
SubRecvStep ==
    /\ sub_inbox # <<>>
    /\ sub_inbox' = Tail(sub_inbox)
    /\ IF SubRaises(Head(sub_inbox).frames)
       THEN /\ sub_failed' = sub_failed \cup {Head(sub_inbox).frames}
            /\ UNCHANGED <<messages, messagesFrom>>
       ELSE /\ messages' = Append(messages, SubGotMessage(Head(sub_inbox).frames))
            /\ messagesFrom' = Append(messagesFrom, Head(sub_inbox).from)
            /\ UNCHANGED sub_failed
    /\ UNCHANGED <<subscriptions, p_queue, p_scheduled, published, pubsubCalls>>
    /\ UNCHANGED engineVars
    /\ UNCHANGED requesterVars
    /\ UNCHANGED replierVars
    /\ UNCHANGED poolVars
    /\ UNCHANGED routerVars
    /\ UNCHANGED edgeVars

Publish == \E pub \in Publications : PubSendMsg(pub.message, pub.tag)
SubscribeTag == \E tag \in Prefixes : Subscribe(tag)
UnsubscribeTag == \E tag \in Prefixes : Unsubscribe(tag)

NextPubSub ==
    \/ SubscribeTag
    \/ UnsubscribeTag
    \/ Publish
    \/ PubDoRead
    \/ ForeignSend
    \/ SubRecvStep

(* The connections of test_pubsub.py as they are constructed.              *)
InitPubSub ==
    /\ subscriptions = [prefix \in Prefixes |-> 0]
    /\ p_queue = <<>>
    /\ p_scheduled = None
    /\ sub_inbox = <<>>
    /\ messages = <<>>
    /\ messagesFrom = <<>>
    /\ published = <<>>
    /\ sub_failed = {}
    /\ pubsubCalls = 0

----------------------------------------------------------------------------
(* txzmq/router_dealer.py: a ZmqRouterConnection router and the            *)
(* ZmqDealerConnections connected to it, one for each identity of Dealers. *)
(* The ROUTER socket takes the first frame of a message it is given as the *)
(* identity of the peer to send the rest to, dropping the message when no  *)
(* such peer is connected, and puts the identity of the sending peer in    *)
(* front of a message it receives.                                         *)

Dealers == {"X", "Y"}
Recipients == Dealers \cup {"nobody"}
RouterParts == {<<"a">>, <<"a", "b">>}
DealerParts == {<<"p">>, <<"p", "q">>}

(* The parts enqueued without the recipient in front.                      *)
RouterFramesNoRecipient(recipientId, parts) == parts

(* [recipientId] + parts, line 25.                                         *)
RouterFrames(recipientId, parts) == <<recipientId>> \o parts

(* ZmqRouterConnection.sendMultipart; sendMsg calls it with one part.      *)
RouterSendMultipart(recipientId, parts) ==
    /\ Len(rt_sent) < MaxRouterSends
    /\ rt_sent' = Append(rt_sent, [recipientId |-> recipientId, parts |-> parts])
    /\ rt_queue' = Enqueue(rt_queue, Frames(RouterFrames(recipientId, parts),
                                            Len(rt_sent) + 1, Len(rt_queue)))
    /\ rt_scheduled' = ScheduleFlush(rt_scheduled, "router").marker
    /\ calls' = ScheduleFlush(rt_scheduled, "router").calls
    /\ UNCHANGED <<rt_wire, dl_got, dl_sent, rt_inbox, rt_log>>
    /\ UNCHANGED <<queue, recv_parts, scheduled_doRead, factory, socket, readers,
                   connections, sockClosed, wire, inbox, answered, pc, passEnq,
                   sendLog, serial, faults, injected, arrived, recvLog>>
    /\ UNCHANGED requesterVars
    /\ UNCHANGED replierVars
    /\ UNCHANGED pubsubVars
    /\ UNCHANGED edgeVars
    /\ UNCHANGED poolVars

(* doRead of router, lines 194-211: the marker is cleared, its call        *)
(* cancelled and the first k frames of the queue are sent.                 *)
RouterDoRead ==
    /\ rt_queue # <<>>
    /\ rt_scheduled' = MarkerAfterEntry(rt_scheduled)
    /\ calls' = {c \in calls : c.of # "router"}
    /\ \E k \in 0..Len(rt_queue) :
          /\ rt_queue' = Drop(rt_queue, k)
          /\ rt_wire' = rt_wire \o Take(rt_queue, k)
    /\ UNCHANGED <<rt_sent, dl_got, dl_sent, rt_inbox, rt_log>>
    /\ UNCHANGED <<queue, recv_parts, scheduled_doRead, factory, socket, readers,
                   connections, sockClosed, wire, inbox, answered, pc, passEnq,
                   sendLog, serial, faults, injected, arrived, recvLog>>
    /\ UNCHANGED requesterVars
    /\ UNCHANGED replierVars
    /\ UNCHANGED pubsubVars
    /\ UNCHANGED edgeVars
    /\ UNCHANGED poolVars

(* The messages the ROUTER socket has passed on to the dealer with the     *)
(* identity dealer: those sent whole, without their first frame.           *)
Routed(dealer) ==
    LET For(m) == m[1].data = dealer
        ms == SelectSeq(Assemble(rt_wire), For)
    IN  [i \in 1..Len(ms) |-> Drop(Data(ms[i]), 1)]

(* A turn of the receive loop of a dealer's doRead: its messageReceived    *)
(* gets the next message routed to it.                                     *)
DealerRecvStep(dealer) ==
    /\ Len(dl_got[dealer]) < Len(Routed(dealer))
    /\ dl_got' = [dl_got EXCEPT
                    ![dealer] = Append(@, Routed(dealer)[Len(@) + 1])]
    /\ UNCHANGED <<rt_queue, rt_scheduled, rt_wire, rt_sent, dl_sent, rt_inbox,
                   rt_log>>
    /\ UNCHANGED engineVars
    /\ UNCHANGED requesterVars
    /\ UNCHANGED replierVars
    /\ UNCHANGED pubsubVars
    /\ UNCHANGED edgeVars
    /\ UNCHANGED poolVars

(* A dealer's sendMultipart(parts), as the message has passed the dealer's *)
(* queue and reached the ROUTER socket.                                    *)
DealerSend(dealer, parts) ==
    /\ Len(dl_sent) < MaxDealerSends
    /\ dl_sent' = Append(dl_sent, [from |-> dealer, parts |-> parts])
    /\ rt_inbox' = Append(rt_inbox, <<dealer>> \o parts)
    /\ UNCHANGED <<rt_queue, rt_scheduled, rt_wire, rt_sent, dl_got, rt_log>>
    /\ UNCHANGED engineVars
    /\ UNCHANGED requesterVars
    /\ UNCHANGED replierVars
    /\ UNCHANGED pubsubVars
    /\ UNCHANGED edgeVars
    /\ UNCHANGED poolVars

(* ZmqRouterConnection.messageReceived, lines 28-32: the handler called    *)
(* and its arguments.                                                      *)
RouterDispatch(message) ==
    IF Len(Tail(message)) = 1
    THEN [handler |-> "gotMessage", senderId |-> Head(message),
          message |-> Tail(message)[1]]
    ELSE [handler |-> "gotMultipart", senderId |-> Head(message),
          messageParts |-> Tail(message)]

(* A turn of the receive loop of router.doRead.                            *)
RouterRecvStep ==
    /\ rt_inbox # <<>>
    /\ rt_inbox' = Tail(rt_inbox)
    /\ rt_log' = Append(rt_log, RouterDispatch(Head(rt_inbox)))
    /\ UNCHANGED <<rt_queue, rt_scheduled, rt_wire, rt_sent, dl_got, dl_sent>>
    /\ UNCHANGED engineVars
    /\ UNCHANGED requesterVars
    /\ UNCHANGED replierVars
    /\ UNCHANGED pubsubVars
    /\ UNCHANGED edgeVars
    /\ UNCHANGED poolVars

RouterSend ==
    \E recipientId \in Recipients, parts \in RouterParts :
        RouterSendMultipart(recipientId, parts)
DealerReceives == \E dealer \in Dealers : DealerRecvStep(dealer)
DealerSends == \E dealer \in Dealers, parts \in DealerParts : DealerSend(dealer, parts)

NextRouter ==
    \/ RouterSend
    \/ RouterDoRead
    \/ DealerReceives
    \/ DealerSends
    \/ RouterRecvStep

InitRouter ==
    /\ rt_queue = <<>>
    /\ rt_scheduled = None
    /\ rt_wire = <<>>
    /\ rt_sent = <<>>
    /\ dl_got = [dealer \in Dealers |-> <<>>]
    /\ dl_sent = <<>>
    /\ rt_inbox = <<>>
    /\ rt_log = <<>>

(* s's socket as it is created: nothing to read, ready to take frames.     *)
InitEdge ==
    /\ fd = FALSE
    /\ writable = TRUE

----------------------------------------------------------------------------
(* The state after ZmqFactory(), ZmqReplyConnection(...) as r and          *)
(* ZmqRequestConnection(...) as s.                                         *)

Init ==
    /\ queue = <<>>
    /\ recv_parts = <<>>
    /\ scheduled_doRead = None
    /\ factory = <<"factory">>
    /\ socket = <<"socket">>
    /\ requests = EmptyMap
    /\ uuids = <<>>
    /\ uuidCount = 0
    /\ result = <<>>
    /\ idOf = <<>>
    /\ resolvedBy = <<>>
    /\ readers = {"r", "s"}
    /\ calls = {}
    /\ connections = {"r", "s"}
    /\ sockClosed = FALSE
    /\ wire = <<>>
    /\ inbox = <<>>
    /\ answered = {}
    /\ pc = "idle"
    /\ passEnq = FALSE
    /\ sendLog = <<>>
    /\ serial = 0
    /\ faults = 0
    /\ injected = 0
    /\ failed = {}
    /\ routingInfo = EmptyMap
    /\ r_queue = <<>>
    /\ r_scheduled = None
    /\ r_log = <<>>
    /\ r_stored = 0
    /\ r_last = None
    /\ arrived = <<>>
    /\ recvLog = <<>>
    /\ InitPubSub
    /\ InitRouter
    /\ InitEdge
    /\ held = <<>>
    /\ poolCalls = 0

ReqSend == \E parts \in SentParts : ReqSendMultipart(parts, MaxRequests)

Next ==
    \/ ReqSend
    \/ ReactorDoRead(SendEnds)
    \/ FlushFires(SendEnds)
    \/ RecvStep
    \/ HandlerReturns
    \/ Shutdown
    \/ PeerReply
    \/ PeerUnsolicited

Spec == Init /\ [][Next]_vars

(* The same, over a transport that may have only a part of a message ready *)
(* when the receive loop runs.                                             *)
NextPump == Next \/ RecvWouldBlock

SpecPump == Init /\ [][NextPump]_vars

SpecPubSub == Init /\ [][NextPubSub]_vars

SpecRouter == Init /\ [][NextRouter]_vars

----------------------------------------------------------------------------
(* s on a reactor that calls doRead when the socket's descriptor signals   *)
(* and not otherwise. fd is the signal: the socket raises it when a        *)
(* message arrives and when it becomes ready to take frames again;         *)
(* getsockopt(EVENTS) takes it back, and so may a send made after it was   *)
(* raised. writable is POLLOUT. No shutdown, no fault.                     *)

(* The replier's reply(id, P) to the k-th request arrives at s.            *)
ReplyArrives(k, P) ==
    LET m == Assemble(wire)[k]
    IN  /\ k \in 1..Len(Assemble(wire))
        /\ k \notin answered
        /\ WellFormed(Data(m))
        /\ answered' = answered \cup {k}
        /\ inbox' = inbox \o Delivery(<<m[1].data, EmptyFrame>> \o P,
                                      [req |-> m[1].msg, id |-> m[1].data,
                                       payload |-> P])
        /\ arrived' = Append(arrived, <<m[1].data, EmptyFrame>> \o P)

(* A reply arrives while no doRead is between line 199 and the end of its  *)
(* send loop.                                                              *)
EdgePeerReply ==
    /\ \E k \in 1..Len(Assemble(wire)), P \in ReplyPayloads : ReplyArrives(k, P)
    /\ fd' = TRUE
    /\ UNCHANGED <<queue, scheduled_doRead, calls, wire, pc, passEnq, writable>>
    /\ UNCHANGED <<recv_parts, factory, socket, readers, connections, sockClosed,
                   sendLog, serial, faults, injected, recvLog>>
    /\ UNCHANGED requesterVars
    /\ UNCHANGED replierVars
    /\ UNCHANGED pubsubVars
    /\ UNCHANGED routerVars
    /\ UNCHANGED poolVars

(* The socket can take frames again and signals it.                        *)
BecomesWritable ==
    /\ ~writable
    /\ writable' = TRUE
    /\ fd' = TRUE
    /\ UNCHANGED <<queue, scheduled_doRead, calls, wire, inbox, answered, pc,
                   passEnq, arrived>>
    /\ UNCHANGED <<recv_parts, factory, socket, readers, connections, sockClosed,
                   sendLog, serial, faults, injected, recvLog>>
    /\ UNCHANGED requesterVars
    /\ UNCHANGED replierVars
    /\ UNCHANGED pubsubVars
    /\ UNCHANGED routerVars
    /\ UNCHANGED poolVars

(* The ways the send loop can go for the EVENTS read at line 199: skipped  *)
(* without POLLOUT; with it, at least the head frame is taken.             *)
EdgeSendLoopCan(q, k, end) ==
    /\ SendLoopCan(q, k, end)
    /\ end # "fault"
    /\ IF writable
       THEN end # "skipped" /\ (q # <<>> => k >= 1)
       ELSE end = "skipped"

(* doRead from its entry to the end of the send loop. EVENTS is read once: *)
(* the receive loop runs when a message was there at line 199. A reply may *)
(* arrive while the send loop runs; a send made after it may take its      *)
(* signal back.                                                            *)
EdgeDoRead(cs) ==
    /\ pc = "idle"
    /\ socket # None
    /\ scheduled_doRead' = MarkerAfterEntry(scheduled_doRead)
    /\ calls' = CallsAfterEntry(cs, scheduled_doRead)
    /\ passEnq' = FALSE
    /\ \E end \in SendEnds, k \in 0..Len(queue) :
          /\ EdgeSendLoopCan(queue, k, end)
          /\ wire' = wire \o SentBy(queue, k)
          /\ queue' = QueueAfter(queue, k, end)
          /\ writable' = (writable /\ end # "eagain")
          /\ \/ /\ UNCHANGED <<inbox, answered, arrived>>
                /\ fd' = FALSE
             \/ /\ \E j \in 1..Len(Assemble(wire)), P \in ReplyPayloads :
                      ReplyArrives(j, P)
                /\ fd' \in (IF k >= 1 \/ end = "eagain" THEN {TRUE, FALSE}
                                                       ELSE {TRUE})
    /\ pc' = IF inbox # <<>> THEN "recv" ELSE "idle"
    /\ UNCHANGED <<recv_parts, factory, socket, readers, connections, sockClosed,
                   sendLog, serial, faults, injected, recvLog>>
    /\ UNCHANGED requesterVars
    /\ UNCHANGED replierVars
    /\ UNCHANGED pubsubVars
    /\ UNCHANGED routerVars
    /\ UNCHANGED poolVars

(* The reactor finds the descriptor signalled and calls doRead.            *)
EdgeNotified ==
    /\ fd
    /\ "s" \in readers
    /\ EdgeDoRead(calls)

(* The reactor fires the delayed call of s.doRead.                         *)
EdgeFlush ==
    \E c \in calls :
        /\ c.of = "s"
        /\ EdgeDoRead(calls \ {c})

NextEdge ==
    \/ ReqSend
    \/ EdgeNotified
    \/ EdgeFlush
    \/ RecvStep
    \/ HandlerReturns
    \/ EdgePeerReply
    \/ BecomesWritable

(* The reactor runs: it calls doRead on a signal, fires a delayed call,    *)
(* and a pass it has started goes on; the transport becomes ready to take  *)
(* frames again.                                                           *)
SpecEdge ==
    /\ Init
    /\ [][NextEdge]_vars
    /\ WF_vars(EdgeNotified)
    /\ WF_vars(EdgeFlush)
    /\ WF_vars(RecvStep)
    /\ WF_vars(HandlerReturns)
    /\ WF_vars(BecomesWritable)

----------------------------------------------------------------------------
(* ZmqReplyConnection r: messageReceived as r's doRead calls it, and the   *)
(* replies the application makes.                                          *)

DelimiterAt(message) ==
    IF \E j \in 1..Len(message) : message[j] = EmptyFrame
    THEN CHOOSE j \in 1..Len(message) :
            message[j] = EmptyFrame /\ \A l \in 1..(j - 1) : message[l] # EmptyFrame
    ELSE 0

(* Lines 135-136: message.index('') raises ValueError without an empty     *)
(* frame, and the assert fails for one in the first place.                 *)
RepRejects(message) == DelimiterAt(message) <= 1

(* Lines 137-138, with j the place of the delimiter counted from 1.        *)
RoutingPrefix(message) == Take(message, DelimiterAt(message) - 2)
RequestId(message) == message[DelimiterAt(message) - 1]
Payload(message) == Drop(message, DelimiterAt(message))

(* The messages r's socket delivers: with and without routing frames,      *)
(* without delimiter, with the delimiter first, without payload.           *)
RepInbound ==
    {<<"client", "u01", "", "a">>, <<"client", "u02", "", "a", "b">>,
     <<"hop", "client", "u01", "", "a">>, <<"u01", "", "a">>,
     <<"", "a">>, <<"client", "u01", "a">>, <<"client", "u01", "">>}

(* ZmqReplyConnection.messageReceived: the prefix is saved before the      *)
(* payload is dispatched; msgParts[0] raises IndexError for no payload.    *)
RepMessageReceived(message) ==
    /\ r_stored < MaxReplierMsgs
    /\ r_last' = None
    /\ IF RepRejects(message)
       THEN UNCHANGED <<routingInfo, r_log>>
       ELSE /\ routingInfo' = MapPut(routingInfo, RequestId(message),
                                     RoutingPrefix(message))
            /\ r_log' = IF Payload(message) = <<>>
                        THEN r_log
                        ELSE Append(r_log, [id |-> RequestId(message),
                                            parts |-> Payload(message)])
    /\ r_stored' = r_stored + 1
    /\ UNCHANGED <<r_queue, r_scheduled>>
    /\ UNCHANGED engineVars
    /\ UNCHANGED requesterVars
    /\ UNCHANGED poolVars
    /\ UNCHANGED pubsubVars
    /\ UNCHANGED routerVars
    /\ UNCHANGED edgeVars

(* routingInfo + [messageId, ''] + messageParts, line 127.                 *)
ReplyFrames(routing, messageId, messageParts) ==
    routing \o <<messageId, EmptyFrame>> \o messageParts

(* The map twice read and never popped.                                    *)
RoutingKept(ri, messageId) == ri

(* self._routingInfo.pop(messageId), line 126, once the key is known.      *)
RoutingAfterReply(ri, messageId) == MapDel(ri, messageId)

(* ZmqReplyConnection.sendMultipart(messageId, messageParts); reply and    *)
(* sendMsg call it with one part. For an id without a saved prefix the pop *)
(* raises KeyError.                                                        *)
RepSendMultipart(messageId, messageParts) ==
    /\ r_last' = <<[id |-> messageId, parts |-> messageParts,
                    ri |-> routingInfo, q |-> r_queue]>>
    /\ IF messageId \notin DOMAIN routingInfo
       THEN /\ UNCHANGED <<routingInfo, r_queue, r_scheduled, calls>>
       ELSE /\ routingInfo' = RoutingAfterReply(routingInfo, messageId)
            /\ r_queue' = Enqueue(r_queue,
                                  Frames(ReplyFrames(routingInfo[messageId],
                                                     messageId, messageParts),
                                         Len(Assemble(r_queue)) + 1, Len(r_queue)))
            /\ r_scheduled' = ScheduleFlush(r_scheduled, "r").marker
            /\ calls' = ScheduleFlush(r_scheduled, "r").calls
    /\ UNCHANGED <<r_log, r_stored>>
    /\ UNCHANGED <<queue, recv_parts, scheduled_doRead, factory, socket, readers,
                   connections, sockClosed, wire, inbox, answered, pc, passEnq,
                   sendLog, serial, faults, injected>>
    /\ UNCHANGED requesterVars
    /\ UNCHANGED poolVars
    /\ UNCHANGED pubsubVars
    /\ UNCHANGED routerVars
    /\ UNCHANGED edgeVars
    /\ UNCHANGED recvVars

ReplyIds == {"u01", "u02", "zz"}

RepReceive == \E message \in RepInbound : RepMessageReceived(message)
RepReply ==
    \E messageId \in ReplyIds, messageParts \in ReplyPayloads :
        RepSendMultipart(messageId, messageParts)

NextRep == RepReceive \/ RepReply

SpecRep == Init /\ [][NextRep]_vars

----------------------------------------------------------------------------
(* test_lot_send_recv_reply and test_cleanup_requests: the test sends all  *)
(* its requests before it returns to the reactor; the replier echoes each  *)
(* request (ZmqTestReplyConnection.gotMultipart) and the transport raises  *)
(* no fault.                                                               *)

CleanupParts == <<"aaa">>
CleanupEnds == SendEnds \ {"fault"}
AllSent == Len(idOf) = CleanupRequests

CleanupSend ==
    /\ pc = "idle"
    /\ ReqSendMultipart(CleanupParts, CleanupRequests)

(* The replier echoes the requests in the order it receives them.          *)
EchoReply ==
    LET k == Cardinality(answered) + 1
    IN  /\ k <= Len(Assemble(wire))
        /\ PeerReplies(k, ReplyParts(Data(Assemble(wire)[k])))

NextCleanup ==
    \/ CleanupSend
    \/ AllSent /\ ReactorDoRead(CleanupEnds)
    \/ AllSent /\ FlushFires(CleanupEnds)
    \/ RecvStep
    \/ HandlerReturns
    \/ EchoReply

SpecCleanup == Init /\ [][NextCleanup]_vars

----------------------------------------------------------------------------
(* The id pool on its own: a caller of s._getNextId and s._releaseId, as   *)
(* in test_getNextId and test_releaseId; held are the ids it was given and *)
(* has not released, oldest first.                                         *)

(* The pool, the uuid4() count and the ids held after g calls of           *)
(* _getNextId in a row on a pool st.                                       *)
RECURSIVE AfterGets(_, _)
AfterGets(st, g) ==
    IF g = 0
    THEN st
    ELSE LET got == GetNextId(st.pool, st.count)
         IN  AfterGets([pool |-> got.pool, count |-> got.count,
                        held |-> Append(st.held, got.id)], g - 1)

(* The caller starts on a new connection, or on one it has drawn more ids  *)
(* from than a full pool can take back.                                    *)
PoolStarts == {0, 2 * UUID_POOL_GEN_SIZE + 1}

InitPool ==
    \E g \in PoolStarts :
        LET st == AfterGets([pool |-> <<>>, count |-> 0, held |-> <<>>], g)
        IN  /\ uuids = st.pool
            /\ uuidCount = st.count
            /\ held = st.held
            /\ poolCalls = 0
            /\ queue = <<>> /\ recv_parts = <<>> /\ scheduled_doRead = None
            /\ factory = <<"factory">> /\ socket = <<"socket">>
            /\ requests = EmptyMap /\ result = <<>> /\ idOf = <<>>
            /\ resolvedBy = <<>> /\ readers = {"r", "s"} /\ calls = {}
            /\ connections = {"r", "s"} /\ sockClosed = FALSE /\ wire = <<>>
            /\ inbox = <<>> /\ answered = {} /\ pc = "idle" /\ passEnq = FALSE
            /\ sendLog = <<>> /\ serial = 0 /\ faults = 0 /\ injected = 0
            /\ failed = {} /\ routingInfo = EmptyMap /\ r_queue = <<>>
            /\ r_scheduled = None /\ r_log = <<>> /\ r_stored = 0
            /\ r_last = None /\ arrived = <<>> /\ recvLog = <<>>
            /\ InitPubSub
            /\ InitRouter
            /\ InitEdge

CallGetNextId ==
    /\ poolCalls < MaxPoolCalls
    /\ uuids = <<>> => uuidCount + UUID_POOL_GEN_SIZE <= MaxBatches * UUID_POOL_GEN_SIZE
    /\ LET got == GetNextId(uuids, uuidCount)
       IN  /\ uuids' = got.pool
           /\ uuidCount' = got.count
           /\ held' = Append(held, got.id)
    /\ poolCalls' = poolCalls + 1
    /\ UNCHANGED engineVars
    /\ UNCHANGED <<requests, result, idOf, resolvedBy, failed>>
    /\ UNCHANGED replierVars
    /\ UNCHANGED pubsubVars
    /\ UNCHANGED routerVars
    /\ UNCHANGED edgeVars

(* The caller releases the id it has held longest or the one it got last.  *)
CallReleaseId ==
    \E i \in {1, Len(held)} :
        /\ poolCalls < MaxPoolCalls
        /\ held # <<>>
        /\ uuids' = ReleaseId(uuids, held[i])
        /\ held' = Take(held, i - 1) \o Drop(held, i)
        /\ poolCalls' = poolCalls + 1
        /\ UNCHANGED engineVars
        /\ UNCHANGED <<requests, uuidCount, result, idOf, resolvedBy, failed>>
        /\ UNCHANGED replierVars
        /\ UNCHANGED pubsubVars
        /\ UNCHANGED routerVars
        /\ UNCHANGED edgeVars

NextPool == CallGetNextId \/ CallReleaseId

SpecPool == InitPool /\ [][NextPool]_vars

----------------------------------------------------------------------------
(* Properties of the request connection under Spec.                        *)

Flush == {c \in calls : c.of = "s"}
Pending(h) == result[h] = None
Resolved(h) == result[h] # None

(* C1: a handle is only ever resolved by a message that carries the id the *)
(* handle was given, and with exactly the payload of that reply; when the  *)
(* peer only answers requests, it is the reply to the handle's own         *)
(* request, whatever the order the replies arrive in.                      *)
C1_RoundTrip ==
    \A h \in 1..Len(result) :
        Resolved(h) =>
            /\ resolvedBy[h][1].id = idOf[h]
            /\ result[h][1] = resolvedBy[h][1].payload
            /\ injected = 0 => resolvedBy[h][1].req = h

(* Two requests in flight, the second answered first.                      *)
C1_Witness ==
    /\ Len(result) = 2
    /\ injected = 0
    /\ Pending(1)
    /\ idOf[1] \in DOMAIN requests
    /\ Resolved(2)
    /\ result[2][1] = <<"p", "q">>
    /\ resolvedBy[2][1].req = 2

(* C3: every message the peer assembles from the frames handed to the      *)
(* transport is the frame list of the send its first frame comes from.     *)
C3_Integrity ==
    \A k \in 1..Len(Assemble(wire)) :
        LET m == Assemble(wire)[k]
        IN  Data(m) = sendLog[m[1].msg]

(* The frames sendMultipart is to enqueue for the frame lists in log: all  *)
(* but the last of each list flagged "more".                               *)
RECURSIVE ExpectedFrames(_)
ExpectedFrames(log) ==
    IF log = <<>>
    THEN <<>>
    ELSE ExpectedFrames(Front(log)) \o
         [i \in 1..Len(Last(log)) |->
             [more |-> i # Len(Last(log)), data |-> Last(log)[i]]]

Plain(f) == [more |-> f.more, data |-> f.data]

(* C4: the queue is the tail of the frames enqueued so far, in order and   *)
(* flagged as sendMultipart is to flag them; the frames handed to the      *)
(* transport left the queue at its head, in enqueue order, each once.      *)
C4_QueueDiscipline ==
    LET exp == ExpectedFrames(sendLog)
    IN  /\ Len(exp) = serial
        /\ \A i \in 1..Len(queue) :
              /\ queue[i].ser = serial - Len(queue) + i
              /\ Plain(queue[i]) = exp[queue[i].ser]
        /\ \A i \in 1..Len(wire) :
              /\ wire[i].ser \in 1..(serial - Len(queue))
              /\ Plain(wire[i]) = exp[wire[i].ser]
        /\ \A i, j \in 1..Len(wire) : i < j => wire[i].ser < wire[j].ser

(* Frames of two sends queued behind one another, the first partly sent.   *)
C4_Witness ==
    /\ Len(wire) > 0
    /\ \E i, j \in 1..Len(queue) :
          /\ i < j
          /\ queue[i].msg = 1
          /\ queue[j].msg = 2

(* C5: at most one flush of s is outstanding in the reactor, and the       *)
(* marker scheduled_doRead is set exactly when one is, to that very call.  *)
C5_SingleFlush ==
    /\ Cardinality(Flush) <= 1
    /\ scheduled_doRead # None <=> Flush # {}
    /\ scheduled_doRead # None => scheduled_doRead[1] \in Flush

(* A flush scheduled by a send made from inside the pump.                  *)
C5_Witness ==
    /\ pc = "handler"
    /\ passEnq
    /\ scheduled_doRead # None
    /\ queue # <<>>

(* C6 as claimed: a pump pass that ends after frames were enqueued during  *)
(* it leaves a flush scheduled.                                            *)
C6_Original ==
    [][(pc # "idle" /\ pc' = "idle" /\ passEnq') => Flush' # {}]_vars

(* C6 as amended: on a connection that has not been shut down, frames      *)
(* enqueued while the pump runs have a flush scheduled from the enqueue on *)
(* to the end of the pass.                                                 *)
C6_NoLostWakeup ==
    /\ []((pc # "idle" /\ passEnq /\ factory # None) => Flush # {})
    /\ [][(pc # "idle" /\ pc' = "idle" /\ passEnq' /\ factory' # None)
            => Flush' # {}]_vars

(* A pass has ended with frames enqueued during it and a flush scheduled.  *)
C6_Witness ==
    /\ pc = "idle"
    /\ passEnq
    /\ factory # None
    /\ queue # <<>>
    /\ Flush # {}

(* The receive loop hands a complete message to messageReceived.           *)
Dispatching ==
    /\ pc = "recv"
    /\ factory # None
    /\ FinalIndex(inbox) # 0
    /\ inbox' = Drop(inbox, FinalIndex(inbox))
Dispatched == recv_parts \o Data(Take(inbox, FinalIndex(inbox)))

(* C10: a received message whose first frame is no id of a pending request *)
(* fails: no handle is resolved, the map and the pool stay as they are.    *)
C10_Unmatched ==
    [][(Dispatching /\ Dispatched[1] \notin DOMAIN requests)
        => /\ Dispatched \in failed'
           /\ requests' = requests
           /\ uuids' = uuids
           /\ result' = result
           /\ pc' = "recv"]_vars

(* An unmatched reply has failed while a request was pending.              *)
C10_Witness ==
    /\ \E m \in failed : Len(m) >= 2 /\ m[1] = "zz"
    /\ DOMAIN requests # {}
    /\ \E h \in 1..Len(result) : Pending(h)

(* C23: once a request's reply was received and its handle resolved, a    *)
(* repetition of that reply fails as unmatched and resolves no handle,     *)
(* whatever was sent and received in between.                              *)
C23_DuplicateReplies ==
    [][(/\ Dispatching
        /\ inbox[FinalIndex(inbox)].tag.req = 0
        /\ \E h \in 1..Len(result) :
              /\ Resolved(h)
              /\ Dispatched = <<idOf[h], EmptyFrame>> \o result[h][1])
        => /\ Dispatched \in failed'
           /\ result' = result
           /\ resolvedBy' = resolvedBy
           /\ requests' = requests]_vars

(* C27: a received message of fewer than two frames, or whose second      *)
(* frame is not the empty delimiter, resolves no handle and leaves the map *)
(* of pending requests and the pool as they are.                           *)
C27_DelimiterCheck ==
    [][(/\ Dispatching
        /\ \/ Len(Dispatched) < 2
           \/ Dispatched[2] # EmptyFrame)
        => /\ result' = result
           /\ resolvedBy' = resolvedBy
           /\ requests' = requests
           /\ uuids' = uuids]_vars

----------------------------------------------------------------------------
(* The send loop of doRead, under Spec.                                    *)

(* A pass of doRead, made by the reactor for readiness or for a fired      *)
(* flush, on a live socket, whose send loop can end in one of ends.        *)
PumpPass(ends) ==
    /\ socket # None
    /\ ReactorDoRead(ends) \/ FlushFires(ends)

(* C12: a pass whose send would block leaves the blocked frame at the head *)
(* of the queue and takes off only the frames it sent, raises nothing, and *)
(* goes on to the receive loop when input is ready; whatever frame is sent *)
(* next, by that or a later pass, is the head of the queue.                *)
C12_Backpressure ==
    /\ [][PumpPass({"eagain"}) =>
            /\ queue' # <<>>
            /\ wire' \o queue' = wire \o queue
            /\ faults' = faults
            /\ readers' = readers
            /\ inbox # <<>> => pc' = "recv"]_vars
    /\ [][wire' # wire => wire'[Len(wire) + 1] = Head(queue)]_vars

(* A message of which the first frames are sent and the rest is queued,    *)
(* no fault having occurred, while the receive loop runs.                  *)
C12_Witness ==
    /\ faults = 0
    /\ wire # <<>>
    /\ queue # <<>>
    /\ Head(queue).msg = Last(wire).msg
    /\ pc = "recv"

(* C13: a pass whose send fails with another error than EAGAIN takes the   *)
(* frames it sent and the failed frame off the queue, raises (the reactor  *)
(* drops s as a reader when it made the call), and runs no receive loop;   *)
(* the failed frame is in neither queue nor wire ever after: every frame   *)
(* enqueued is queued, sent or lost to a fault, once.                      *)
C13_SendFault ==
    /\ [](/\ Len(wire) + Len(queue) + faults = serial
          /\ \A i, j \in 1..Len(wire \o queue) :
                i < j => (wire \o queue)[i].ser < (wire \o queue)[j].ser)
    /\ [][PumpPass({"fault"}) =>
            LET k == Len(wire') - Len(wire)
            IN  /\ k \in 0..(Len(queue) - 1)
                /\ wire' = wire \o Take(queue, k)
                /\ queue' = Drop(queue, k + 1)
                /\ faults' = faults + 1
                /\ ReactorDoRead({"fault"}) => "s" \notin readers'
                /\ pc' = "idle"
                /\ UNCHANGED <<inbox, recv_parts, requests, result, uuids>>]_vars

(* A fault has cost a frame, with frames still queued and input waiting    *)
(* that the aborted pass did not read.                                     *)
C13_Witness ==
    /\ faults > 0
    /\ Len(wire) + Len(queue) < serial
    /\ queue # <<>>
    /\ inbox # <<>>
    /\ pc = "idle"

----------------------------------------------------------------------------
(* Properties of the id pool under SpecPool.                               *)

IdIndex(u) == CHOOSE i \in 1..Len(UuidSpace) : UuidSpace[i] = u

(* C2: no id is held twice, the pool holds no id twice, and no id in the   *)
(* pool is held: the id _getNextId returns next is not in use.             *)
C2_PoolUnique == NoDup(held \o uuids)

(* An id of the first batch was released and handed out again after an id  *)
(* of a later batch, which is still held.                                  *)
C2_Witness ==
    \E i, j \in 1..Len(held) :
        /\ i < j
        /\ IdIndex(held[i]) > UUID_POOL_GEN_SIZE
        /\ IdIndex(held[j]) <= UUID_POOL_GEN_SIZE

(* C8: the pool never holds more than two batches of ids, so in            *)
(* particular not right after a release.                                   *)
C8_PoolBound == Len(uuids) <= 2 * UUID_POOL_GEN_SIZE

(* A release has cut a batch off the pool: of three batches generated, one *)
(* is neither in the pool nor held.                                        *)
C8_Witness ==
    /\ uuidCount = 3 * UUID_POOL_GEN_SIZE
    /\ Len(uuids) = UUID_POOL_GEN_SIZE + 1
    /\ Len(uuids) + Len(held) = 2 * UUID_POOL_GEN_SIZE

(* C22: _getNextId generates ids only on an empty pool, a batch of        *)
(* UUID_POOL_GEN_SIZE, and takes one id out of the pool: the pool holds    *)
(* one id less than a batch after a call on an empty pool and one id less  *)
(* than before otherwise; the id returned is none of the ids got before    *)
(* and not released since.                                                 *)
C22_PoolRefill ==
    [][Len(held') = Len(held) + 1 =>
          /\ IF uuids = <<>>
             THEN /\ Len(uuids') = UUID_POOL_GEN_SIZE - 1
                  /\ uuidCount' = uuidCount + UUID_POOL_GEN_SIZE
                  /\ Range(uuids') \cup {Last(held')} =
                        {Uuid4(uuidCount + i) : i \in 1..UUID_POOL_GEN_SIZE}
             ELSE /\ uuids' = Front(uuids)
                  /\ uuidCount' = uuidCount
                  /\ Last(held') = Last(uuids)
          /\ Last(held') \notin Range(held)
          /\ NoDup(held')]_vars

(* Six calls in a row on a new connection: the sixth found the pool empty  *)
(* and generated the second batch.                                         *)
C22_Witness ==
    /\ uuidCount = 2 * UUID_POOL_GEN_SIZE
    /\ Len(uuids) = UUID_POOL_GEN_SIZE - 1
    /\ Len(held) = UUID_POOL_GEN_SIZE + 1
    /\ poolCalls = UUID_POOL_GEN_SIZE + 1

----------------------------------------------------------------------------
(* Properties of the cleanup scenario under SpecCleanup.                   *)

AllResolved == AllSent /\ \A h \in 1..Len(result) : Resolved(h)
Echoed == \A h \in 1..Len(result) : Resolved(h) => result[h][1] = CleanupParts

(* C7 as claimed: once the ten concurrent requests have resolved, each to  *)
(* its echoed payload, no request is pending and the pool holds one batch. *)
C7_Original ==
    /\ Echoed
    /\ AllResolved => (requests = EmptyMap /\ Len(uuids) = UUID_POOL_GEN_SIZE)

(* C7 as amended: the pool then holds two batches, the ten ids released.   *)
C7_Cleanup ==
    /\ Echoed
    /\ AllResolved => (requests = EmptyMap /\ Len(uuids) = 2 * UUID_POOL_GEN_SIZE)

(* All ten requests have resolved.                                         *)
C7_Witness == AllResolved /\ pc = "idle" /\ queue = <<>>

----------------------------------------------------------------------------
(* Properties of the reply connection under SpecRep.                       *)

Flagged(parts) == [i \in 1..Len(parts) |-> [more |-> i # Len(parts), data |-> parts[i]]]
PlainAll(frames) == [i \in 1..Len(frames) |-> Plain(frames[i])]

(* C9: a reply for an id with a saved prefix removes the entry and         *)
(* enqueues exactly prefix + [id, ""] + parts; a reply for any other id    *)
(* changes neither the routing map nor the queue; so r never sends more    *)
(* replies than it has saved prefixes.                                     *)
C9_ReplyOnce ==
    /\ r_last # None =>
          LET c == r_last[1]
          IN  IF c.id \in DOMAIN c.ri
              THEN /\ routingInfo = MapDel(c.ri, c.id)
                   /\ Take(r_queue, Len(c.q)) = c.q
                   /\ PlainAll(Drop(r_queue, Len(c.q)))
                        = Flagged(c.ri[c.id] \o <<c.id, EmptyFrame>> \o c.parts)
              ELSE /\ routingInfo = c.ri
                   /\ r_queue = c.q
    /\ Len(Assemble(r_queue)) <= r_stored

(* A second reply to a request already answered has just failed.           *)
C9_Witness ==
    /\ r_last # None
    /\ r_last[1].id \notin DOMAIN r_last[1].ri
    /\ \E i \in 1..Len(r_queue) : r_queue[i].data = r_last[1].id
    /\ \E i \in 1..Len(r_queue) : r_queue[i].data = "client"

(* What messageReceived is to do with a message that has a delimiter after *)
(* its first frame: save the prefix under the id and dispatch the payload. *)
ParsedAndDispatched(message) ==
    /\ routingInfo' = MapPut(routingInfo, RequestId(message), RoutingPrefix(message))
    /\ r_log' = Append(r_log, [id |-> RequestId(message), parts |-> Payload(message)])

(* C11: a message without an empty frame, or with the empty frame first,   *)
(* is neither stored nor dispatched; for any other message the frame       *)
(* before the first empty frame is the id, the frames before it are stored *)
(* as its prefix and the frames after the empty frame are dispatched with  *)
(* that id.                                                                *)
C11_Parsing ==
    [][\A message \in RepInbound :
          RepMessageReceived(message) =>
             IF RepRejects(message)
             THEN UNCHANGED <<routingInfo, r_log>>
             ELSE ParsedAndDispatched(message)]_vars

(* C26: the routing map has an entry for an id only if a request with     *)
(* that id was dispatched to the handler, and a received message that is   *)
(* not dispatched leaves the map as it is.                                 *)
C26_RoutingTracksDispatched ==
    /\ [](\A id \in DOMAIN routingInfo :
            \E i \in 1..Len(r_log) : r_log[i].id = id)
    /\ [][(r_stored' = r_stored + 1 /\ r_log' = r_log)
            => routingInfo' = routingInfo]_vars

----------------------------------------------------------------------------
(* The receive loop of doRead, under SpecPump.                             *)

RECURSIVE Flatten(_)
Flatten(msgs) == IF msgs = <<>> THEN <<>> ELSE Head(msgs) \o Flatten(Tail(msgs))

(* C14: the messages given to messageReceived are the messages sent to the *)
(* socket, each whole and once, in the order of their arrival; the         *)
(* accumulator holds the frames read of the next message and of no other,  *)
(* also from one pass to the next.                                         *)
C14_Assembly ==
    /\ Len(recvLog) <= Len(arrived)
    /\ \A i \in 1..Len(recvLog) : recvLog[i] = arrived[i]
    /\ recv_parts \o Data(inbox) = Flatten(Drop(arrived, Len(recvLog)))
    /\ recv_parts # <<>> => Len(recv_parts) < Len(arrived[Len(recvLog) + 1])

(* Between two passes the accumulator holds the first frames of a message, *)
(* read after an earlier message was dispatched; the rest is yet to come.  *)
C14_Witness ==
    /\ pc = "idle"
    /\ recv_parts # <<>>
    /\ Len(recvLog) >= 1
    /\ inbox # <<>>

----------------------------------------------------------------------------
(* shutdown and the request connection's send, under Spec.                 *)

ShutdownDone == factory # None /\ factory' = None

(* C15: once a handler has shut the connection down, the pass it runs in   *)
(* reads no frame, sends no frame and dispatches no message, and the       *)
(* receive loop returns at its next turn.                                  *)
C15_ShutdownInPump ==
    /\ [][(pc # "idle" /\ factory' = None) =>
            /\ UNCHANGED <<inbox, recv_parts, wire, recvLog, failed>>
            /\ \A h \in 1..Len(result) : result'[h] = result[h]]_vars
    /\ [][(pc = "recv" /\ factory = None) => pc' = "idle"]_vars

(* The receive loop is about to take its next turn after a handler has     *)
(* shut the connection down, with a message waiting to be read.            *)
C15_Witness ==
    /\ pc = "recv"
    /\ factory = None
    /\ FinalIndex(inbox) # 0

(* C16: shutdown leaves s out of the reactor's readers and of the          *)
(* factory's connections, with its socket closed, for good; it leaves no   *)
(* flush of s with the reactor; and no frame is sent after it.             *)
C16_ShutdownEffects ==
    /\ [](factory = None =>
            /\ "s" \notin readers
            /\ "s" \notin connections
            /\ sockClosed
            /\ socket = None)
    /\ [][ShutdownDone => (scheduled_doRead' = None /\ Flush' = {})]_vars
    /\ [][factory = None => wire' = wire]_vars

(* A handler has enqueued frames, which scheduled a flush, and has then    *)
(* shut the connection down inside the pass.                               *)
C16_Witness ==
    /\ factory = None
    /\ pc = "handler"
    /\ passEnq
    /\ queue # <<>>
    /\ Flush = {}

(* C17: shutdown changes neither the pending requests nor the pool and     *)
(* fires no handle; an id leaves the pending requests, and a handle is     *)
(* fired, only as doRead dispatches a message that starts with that id.    *)
C17_PendingSurvive ==
    /\ [][ShutdownDone => UNCHANGED <<requests, uuids, result, failed>>]_vars
    /\ [][\A id \in DOMAIN requests :
            id \notin DOMAIN requests' => (Dispatching /\ Dispatched[1] = id)]_vars
    /\ [][\A h \in 1..Len(result) :
            (Pending(h) /\ result'[h] # None)
                => (Dispatching /\ Dispatched[1] = idOf[h])]_vars

(* The connection is shut down between passes with a request pending whose *)
(* reply is at the socket and will not be read.                            *)
C17_Witness ==
    /\ factory = None
    /\ pc = "idle"
    /\ inbox # <<>>
    /\ Head(inbox).data \in DOMAIN requests
    /\ Pending(requests[Head(inbox).data])

(* C18: a send takes the last id of the pool (of a new batch when the pool *)
(* is empty), maps it to a new, unfired handle, and enqueues [id, ""] and  *)
(* the parts behind what is queued; a handle is fired by a turn of the     *)
(* receive loop of doRead and by no send.                                  *)
C18_AsyncSend ==
    /\ [][Len(idOf') = Len(idOf) + 1 =>
            LET h == Len(idOf')
                id == idOf'[h]
            IN  /\ uuids # <<>> => (id = Last(uuids) /\ uuids' = Front(uuids))
                /\ id \notin Range(uuids')
                /\ id \notin DOMAIN requests
                /\ requests' = MapPut(requests, id, h)
                /\ \E parts \in SentParts :
                      PlainAll(queue') = PlainAll(queue)
                                           \o Flagged(<<id, EmptyFrame>> \o parts)
                /\ result' = Append(result, None)]_vars
    /\ [][\A h \in 1..Len(result) :
            (Pending(h) /\ result'[h] # None)
                => (pc = "recv" /\ idOf' = idOf)]_vars

(* A callback has sent a request from inside a pass and holds its handle,  *)
(* unfired.                                                                *)
C18_Witness ==
    /\ pc = "handler"
    /\ passEnq
    /\ Len(result) >= 2
    /\ Pending(Len(result))
    /\ queue # <<>>

----------------------------------------------------------------------------
(* Publishing and subscribing, under SpecPubSub.                           *)

RECURSIVE FromPub(_, _)
FromPub(msgs, froms) ==
    IF msgs = <<>>
    THEN <<>>
    ELSE (IF Head(froms) = "pub" THEN <<Head(msgs)>> ELSE <<>>)
            \o FromPub(Tail(msgs), Tail(froms))

Pairs(pubs) == [i \in 1..Len(pubs) |-> <<pubs[i].tag, pubs[i].message>>]
Subscribed == {prefix \in Prefixes : subscriptions[prefix] > 0}
TagSubscribed(pub) == \E prefix \in Subscribed : IsPrefix(prefix, pub.tag)
FramePassed(pub) ==
    \E prefix \in Subscribed : IsPrefix(prefix, pub.tag \o <<NUL>> \o pub.message)
Quiescent == p_queue = <<>> /\ sub_inbox = <<>>
NulFree(str) == \A i \in 1..Len(str) : str[i] # NUL

(* What sub has got of pub is the start of the list exp, and all of it     *)
(* once nothing is on its way.                                             *)
ReceivesInOrder(exp) ==
    /\ IsPrefix(FromPub(messages, messagesFrom), exp)
    /\ Quiescent => FromPub(messages, messagesFrom) = exp

----------------------------------------------------------------------------
(* The router connection, under SpecRouter.                                *)

(* The parts router was asked to send to the dealer, in order.             *)
SentTo(dealer) ==
    LET For(c) == c.recipientId = dealer
        cs == SelectSeq(rt_sent, For)
    IN  [i \in 1..Len(cs) |-> cs[i].parts]

(* C21: a send enqueues [recipientId] + parts; a received message is       *)
(* dispatched without its first frame, given as senderId, to gotMessage    *)
(* when one frame is left and to gotMultipart otherwise; each dealer gets  *)
(* the parts sent to its identity, without the identity; and router sees   *)
(* the messages of the dealers each under the identity of its sender.      *)
C21_RouterIdentity ==
    /\ [][Len(rt_sent') = Len(rt_sent) + 1 =>
            PlainAll(rt_queue') = PlainAll(rt_queue) \o
                Flagged(<<Last(rt_sent').recipientId>> \o Last(rt_sent').parts)]_vars
    /\ [][(rt_inbox # <<>> /\ rt_inbox' = Tail(rt_inbox)) =>
            LET m == Head(rt_inbox)
            IN  /\ Len(rt_log') = Len(rt_log) + 1
                /\ Last(rt_log').senderId = m[1]
                /\ IF Len(m) = 2
                   THEN /\ Last(rt_log').handler = "gotMessage"
                        /\ Last(rt_log').message = m[2]
                   ELSE /\ Last(rt_log').handler = "gotMultipart"
                        /\ Last(rt_log').messageParts = Drop(m, 1)]_vars
    /\ [](\A dealer \in Dealers :
            /\ IsPrefix(dl_got[dealer], SentTo(dealer))
            /\ rt_queue = <<>> => Routed(dealer) = SentTo(dealer))
    /\ [](\A i \in 1..Len(rt_log) :
            /\ rt_log[i].senderId = dl_sent[i].from
            /\ dl_sent[i].parts =
                  IF rt_log[i].handler = "gotMessage"
                  THEN <<rt_log[i].message>>
                  ELSE rt_log[i].messageParts)

(* The dealer X has got the two parts sent to it, and router has got a     *)
(* message of X of one part and a message of Y of two.                     *)
C21_Witness ==
    /\ dl_got["X"] = <<<<"a", "b">>>>
    /\ \E i \in 1..Len(rt_log) :
          /\ rt_log[i].senderId = "X"
          /\ rt_log[i].handler = "gotMessage"
    /\ \E i \in 1..Len(rt_log) :
          /\ rt_log[i].senderId = "Y"
          /\ rt_log[i].handler = "gotMultipart"

----------------------------------------------------------------------------
(* Liveness of the pump, under SpecEdge.                                   *)

(* C24: every message that has arrived at the socket is dispatched to      *)
(* messageReceived in the end.                                             *)
C24_InboundLiveness ==
    \A n \in 1..MaxRequests : (Len(arrived) >= n) ~> (Len(recvLog) >= n)

(* C25: every frame sendMultipart has enqueued is handed to the transport  *)
(* in the end, also when a pass has left it in the queue.                  *)
C25_OutboundLiveness ==
    \A n \in 1..(4 * MaxRequests) : (serial >= n) ~> (Len(wire) >= n)

(* A pass has stopped on would-block with frames sent and frames left, no  *)
(* flush is scheduled and no signal is pending.                            *)
C25_Witness ==
    /\ pc = "idle"
    /\ queue # <<>>
    /\ wire # <<>>
    /\ ~writable
    /\ ~fd
    /\ Flush = {}

====
